---- MODULE Spec2Model ----
(***************************************************************************)
(* Model of src/main.py: a Telegram bot with an /art command, which        *)
(* fetches a random Met Museum object and sends it, and an echo handler.   *)
(*                                                                         *)
(* Strings are sequences of tokens.  A token is one character, or one      *)
(* character reference produced by html.escape ("&lt;", "&amp;", ...), or, *)
(* inside the literal part of a template, one fixed fragment of the        *)
(* f-string ("<b>", "</b>", ...).  A text is a sequence of pieces; each    *)
(* piece records whether its tokens come from the program's own template   *)
(* (k = "lit") or were interpolated from a value (k = "val").  Non-ASCII   *)
(* characters of the source's literals are written as U+XXXX.              *)
(***************************************************************************)
EXTENDS Naturals, Integers, Sequences, FiniteSets, TLC

(***************************************************************************)
(* Bounds                                                                  *)
(***************************************************************************)
MaxKeys == 3
NumUpdates == 2

(***************************************************************************)
(* JSON values and Python truthiness                                       *)
(***************************************************************************)
Null == [t |-> "null", s |-> <<>>, l |-> <<>>]
Str(x) == [t |-> "str", s |-> x, l |-> <<>>]
List(xs) == [t |-> "list", s |-> <<>>, l |-> xs]

Truthy(v) ==
    CASE v.t = "null" -> FALSE
      [] v.t = "str" -> v.s # <<>>
      [] v.t = "list" -> v.l # <<>>

\* dict.get(key): the value stored under key, None when the key is missing.
\* A payload is the JSON object as parsed: a sequence of key/value pairs in
\* the order of the document, keys distinct.
Get(d, key) ==
    IF \E i \in 1..Len(d) : d[i].k = key
    THEN d[CHOOSE i \in 1..Len(d) : d[i].k = key].v
    ELSE Null

\* a or b
Or(a, b) == IF Truthy(a) THEN a ELSE b

(***************************************************************************)
(* html.escape(s, quote=True)                                              *)
(***************************************************************************)
EscapeChar(c) ==
    CASE c = "&" -> "&amp;"
      [] c = "<" -> "&lt;"
      [] c = ">" -> "&gt;"
      [] c = "\"" -> "&quot;"
      [] c = "'" -> "&#x27;"
      [] OTHER -> c

escape(s) == [i \in 1..Len(s) |-> EscapeChar(s[i])]

Lit(s) == [k |-> "lit", s |-> s]
Val(s) == [k |-> "val", s |-> s]

RECURSIVE Join(_)
\* "\n".join(lines), each line being a sequence of pieces
Join(lines) ==
    IF lines = <<>> THEN <<>>
    ELSE IF Len(lines) = 1 THEN lines[1]
    ELSE lines[1] \o <<Lit(<<"\n">>)>> \o Join(Tail(lines))

(***************************************************************************)
(* format_art_info                                                         *)
(***************************************************************************)
\* the dict literal `fields`: label and source key, in the literal's order
Fields ==
    << [label |-> "Title",   key |-> "title"],
       [label |-> "Artist",  key |-> "artistDisplayName"],
       [label |-> "Date",    key |-> "objectDate"],
       [label |-> "Culture", key |-> "culture"],
       [label |-> "Period",  key |-> "period"],
       [label |-> "Medium",  key |-> "medium"],
       [label |-> "Country", key |-> "country"] >>

LabelPiece(label) == Lit(<<"<b>", label, "</b>", ": ">>)

FieldLine(label, value) == <<LabelPiece(label), Val(escape(value.s))>>

LinkLine(object_url) ==
    << Lit(<<"\n", "<a href=\"">>), Val(object_url.s),
       Lit(<<"\">", "View on Met website", "</a>">>) >>

RECURSIVE FieldLines(_, _)
\* the list comprehension over fields.items() from position i on
FieldLines(d, i) ==
    IF i > Len(Fields) THEN <<>>
    ELSE LET value == Get(d, Fields[i].key)
         IN  (IF Truthy(value) THEN <<FieldLine(Fields[i].label, value)>> ELSE <<>>)
             \o FieldLines(d, i + 1)

RECURSIVE PayloadOrderLines(_, _)
\* faulty variant: one line per pair of the payload, in the payload's order
PayloadOrderLines(d, i) ==
    IF i > Len(d) THEN <<>>
    ELSE LET f == {j \in 1..Len(Fields) : Fields[j].key = d[i].k}
         IN  (IF f # {} /\ Truthy(d[i].v)
              THEN <<FieldLine(Fields[CHOOSE j \in f : TRUE].label, d[i].v)>>
              ELSE <<>>)
             \o PayloadOrderLines(d, i + 1)

info_lines_payload_order(d) ==
    PayloadOrderLines(d, 1)
    \o (IF Truthy(Get(d, "objectURL")) THEN <<LinkLine(Get(d, "objectURL"))>> ELSE <<>>)

info_lines(d) ==
    FieldLines(d, 1)
    \o (IF Truthy(Get(d, "objectURL")) THEN <<LinkLine(Get(d, "objectURL"))>> ELSE <<>>)

format_art_info(d) == Join(info_lines(d))

(***************************************************************************)
(* get_best_image_url                                                      *)
(***************************************************************************)
\* (x or [None])[0]
FirstOrNone(x) == IF Truthy(x) THEN Str(x.l[1]) ELSE Null

\* faulty variant: the full-size image is preferred to the small one
get_best_image_url_primary_first(d) ==
    Or(Get(d, "primaryImage"),
       Or(Get(d, "primaryImageSmall"),
          FirstOrNone(Get(d, "additionalImages"))))

get_best_image_url(d) ==
    Or(Get(d, "primaryImageSmall"),
       Or(Get(d, "primaryImage"),
          FirstOrNone(Get(d, "additionalImages"))))

(***************************************************************************)
(* Object records the formatter is applied to                              *)
(***************************************************************************)
CaptionKeys == {Fields[i].key : i \in 1..Len(Fields)}
ImageKeys == {"primaryImageSmall", "primaryImage"}
AllKeys == CaptionKeys \cup ImageKeys \cup {"objectURL", "additionalImages"}

ValuesOf(key) ==
    CASE key \in CaptionKeys -> {Str(<<>>), Str(<<"a", "<">>)}
      [] key = "objectURL" -> {Str(<<>>), Str(<<"u", "\"">>)}
      [] key = "primaryImageSmall" -> {Null, Str(<<>>), Str(<<"s", "&">>)}
      [] key = "primaryImage" -> {Str(<<>>), Str(<<"p">>)}
      [] key = "additionalImages" ->
            {Null, List(<<>>), List(<< <<"x">>, <<"y">> >>), List(<< <<>> >>)}
      [] key = "objectIDs" ->
            {Null, List(<<>>), List(<< <<"101">>, <<"202">> >>)}
      [] key = "message" -> {Str(<<"e">>)}

KeysOf(d) == {d[i].k : i \in 1..Len(d)}

AllValues == UNION {ValuesOf(key) : key \in AllKeys \cup {"objectIDs", "message"}}

RECURSIVE Payloads(_, _)
\* JSON objects with at most n of the given keys, in every document order
Payloads(keys, n) ==
    IF n = 0 THEN {<<>>}
    ELSE LET P == Payloads(keys, n - 1)
         IN  P \cup { Append(x[1], [k |-> x[2], v |-> x[3]]) :
                        x \in { y \in P \X keys \X AllValues :
                                  /\ Len(y[1]) = n - 1
                                  /\ y[2] \notin KeysOf(y[1])
                                  /\ y[3] \in ValuesOf(y[2]) } }

(***************************************************************************)
(* fetch_json                                                              *)
(***************************************************************************)
\* A parsed JSON document: null, an object (t = "dict", d its pairs), or a
\* non-empty value of another type (array, string, number).
JNull == [t |-> "null", d |-> <<>>]
JOther == [t |-> "other", d |-> <<>>]
JDict(p) == [t |-> "dict", d |-> p]

\* bool(x) of a parsed document
JTruthy(j) == j.t = "other" \/ (j.t = "dict" /\ j.d # <<>>)

\* What a Python call yields: a value (None is the value JNull) or an
\* exception leaving the call.
Returns(j) == [r |-> "ok", v |-> j]
PyNone == Returns(JNull)
Raises == [r |-> "raise", v |-> JNull]
Unset == [r |-> "unset", v |-> JNull]

\* What session.get meets: no response at all (aiohttp.ClientError for a
\* connection, DNS or TLS failure; asyncio.TimeoutError), or a final response
\* with a status and a body that is JSON (val), is not declared as JSON
\* ("badtype": ContentTypeError, a ClientError) or does not decode
\* ("badjson": json.JSONDecodeError, a ValueError).
Statuses == {200, 300, 404, 500}

Responses(jsons) ==
    { [kind |-> kd, status |-> 0, body |-> "none", val |-> JNull] :
        kd \in {"client_error", "timeout"} }
    \cup { [kind |-> "response", status |-> st, body |-> "json", val |-> j] :
             st \in Statuses, j \in jsons }
    \cup { [kind |-> "response", status |-> st, body |-> b, val |-> JNull] :
             st \in Statuses, b \in {"badtype", "badjson"} }

fetch_json(resp) ==
    CASE resp.kind \in {"client_error", "timeout"} -> PyNone
      [] resp.status >= 400 -> PyNone      \* raise_for_status: ClientResponseError
      [] resp.body = "badtype" -> PyNone   \* response.json(): ContentTypeError
      [] resp.body = "badjson" -> Raises   \* response.json(): ValueError, not caught
      [] OTHER -> Returns(resp.val)

(***************************************************************************)
(* get_random_met_object                                                   *)
(***************************************************************************)
SearchJsons ==
    { JNull, JOther, JDict(<<>>) }
    \cup { JDict(<<[k |-> key, v |-> val]>>) :
             <<key, val>> \in { kv \in {"objectIDs", "message"}
                                       \X (ValuesOf("objectIDs") \cup ValuesOf("message")) :
                                  kv[2] \in ValuesOf(kv[1]) } }

\* the objects the detail endpoint answers with
Opt(key, present, val) == IF present THEN <<[k |-> key, v |-> val]>> ELSE <<>>

DetailPayloads ==
    { Opt("title", t, Str(<<"a", "<">>))
        \o Opt("objectURL", o, Str(<<"u", "\"">>))
        \o Opt("primaryImageSmall", i, Str(<<"s", "&">>)) :
      t \in BOOLEAN, o \in BOOLEAN, i \in BOOLEAN }

DetailJsons == {JNull, JOther} \cup {JDict(p) : p \in DetailPayloads}

\* faulty variant: only the absence of the search result is tested, so that
\* search_data['objectIDs'] or random.choice raises on a result without
\* identifiers
SearchOutcomeNoIdCheck(sd) ==
    CASE sd.r = "raise" -> "raise"
      [] ~JTruthy(sd.v) -> "none"
      [] sd.v.t = "other" -> "raise"
      [] ~Truthy(Get(sd.v.d, "objectIDs")) -> "raise"
      [] OTHER -> "pick"

\* lines 54-64: what follows the search fetch
SearchOutcome(sd) ==
    CASE sd.r = "raise" -> "raise"          \* fetch_json raised
      [] ~JTruthy(sd.v) -> "none"           \* not search_data
      [] sd.v.t = "other" -> "raise"        \* search_data.get: AttributeError
      [] ~Truthy(Get(sd.v.d, "objectIDs")) -> "none"
      [] OTHER -> "pick"

\* random.choice(search_data['objectIDs'])
Choices(sd) ==
    LET ids == Get(sd.v.d, "objectIDs").l IN {ids[i] : i \in 1..Len(ids)}

(***************************************************************************)
(* get_met_art_item, echo: message texts                                   *)
(***************************************************************************)
FailText == <<Lit(<<"U+1F6AB Couldn't fetch artwork. Please try again later.">>)>>

FallbackText(image_url, caption) ==
    <<Lit(<<"U+1F5BC U+FE0F Image available at: ">>), Val(image_url.s), Lit(<<"\n\n">>)>>
    \o caption

\* faulty variant: the caption alone
NoImageTextBare(caption) == caption

NoImageText(caption) ==
    <<Lit(<<"U+274C No image available for this artwork\n\n">>)>> \o caption

\* faulty variant: the test of met_object is missing, so that None.get raises
AfterSelectorNoTest(mo) ==
    CASE mo.r = "raise" -> "raised"
      [] mo.v.t # "dict" -> "raised"
      [] Truthy(get_best_image_url(mo.v.d)) -> "photo"
      [] OTHER -> "noimg_reply"

\* lines 121-130: what the handler does with the selector's result
AfterSelector(mo) ==
    CASE mo.r = "raise" -> "raised"
      [] ~JTruthy(mo.v) -> "fail_reply"        \* not met_object
      [] mo.v.t = "other" -> "raised"          \* object_data.get: AttributeError
      [] Truthy(get_best_image_url(mo.v.d)) -> "photo"
      [] OTHER -> "noimg_reply"

Formats(mo) == mo.r = "ok" /\ mo.v.t = "dict" /\ mo.v.d # <<>>

(***************************************************************************)
(* State                                                                   *)
(***************************************************************************)
VARIABLES
    updates,      \* the updates received: kind ("art" or "text") and text
    queue,        \* the application's update queue
    pc,           \* where the handler of each update stands
    search_data,  \* get_random_met_object's search_data
    random_id,    \* get_random_met_object's random_id
    met_object,   \* get_met_art_item's met_object
    image_url,    \* get_met_art_item's image_url
    caption,      \* get_met_art_item's caption
    trace,        \* per update, the outbound calls made so far, in order
    fmt_pc, fmt_rec, fmt_image, fmt_caption,   \* the formatter applied to a record
    fetch_pc, fetch_resp, fetch_out            \* fetch_json applied to a response

hvars == <<updates, queue, pc, search_data, random_id, met_object, image_url, caption, trace>>
fmtvars == <<fmt_pc, fmt_rec, fmt_image, fmt_caption>>
fetchvars == <<fetch_pc, fetch_resp, fetch_out>>
vars == <<hvars, fmtvars, fetchvars>>

U == 1..NumUpdates

Texts == {<<"h", "i">>, <<"<", "b", ">">>}

Event(ev, arg, text, photo, mode, ok) ==
    [ev |-> ev, arg |-> arg, text |-> text, photo |-> photo, mode |-> mode, ok |-> ok]

Terminal == {"done", "raised"}

HandlersIdle ==
    /\ updates \in [U -> {[kind |-> "none", text |-> <<>>]}]
    /\ queue = <<>>
    /\ pc = [u \in U |-> "done"]
    /\ search_data = [u \in U |-> Unset]
    /\ random_id = [u \in U |-> <<>>]
    /\ met_object = [u \in U |-> Unset]
    /\ image_url = [u \in U |-> Null]
    /\ caption = [u \in U |-> <<>>]
    /\ trace = [u \in U |-> <<>>]

FmtIdle == fmt_pc = "off" /\ fmt_rec = <<>> /\ fmt_image = Null /\ fmt_caption = <<>>

FetchIdle ==
    /\ fetch_pc = "off"
    /\ fetch_resp = [kind |-> "timeout", status |-> 0, body |-> "none", val |-> JNull]
    /\ fetch_out = Unset

\* run_polling with a batch of updates received: every update waits in the
\* update queue, no handler has started
Init ==
    /\ updates \in [U -> {[kind |-> "art", text |-> <<"/", "art">>]}
                         \cup {[kind |-> "text", text |-> t] : t \in Texts}]
    /\ queue = [i \in U |-> i]
    /\ pc = [u \in U |-> "queued"]
    /\ search_data = [u \in U |-> Unset]
    /\ random_id = [u \in U |-> <<>>]
    /\ met_object = [u \in U |-> Unset]
    /\ image_url = [u \in U |-> Null]
    /\ caption = [u \in U |-> <<>>]
    /\ trace = [u \in U |-> <<>>]
    /\ FmtIdle
    /\ FetchIdle

(***************************************************************************)
(* main: the application and its dispatch of updates                       *)
(***************************************************************************)
\* Application.builder().token(BOT_TOKEN).build(): concurrent_updates is not
\* called, and both handlers are added with the default block=True, so the
\* application awaits the handler of an update before it takes the next
\* update from the queue.
concurrent_updates == FALSE

DispatchReady == concurrent_updates \/ \A v \in U : pc[v] \in {"queued"} \cup Terminal

\* MessageHandler(filters.TEXT & ~filters.COMMAND, echo), CommandHandler('art', ...)
HandlerEntry(upd) == IF upd.kind = "art" THEN "chat_action" ELSE "echo_action"

Dispatch ==
    /\ queue # <<>>
    /\ DispatchReady
    /\ pc' = [pc EXCEPT ![Head(queue)] = HandlerEntry(updates[Head(queue)])]
    /\ queue' = Tail(queue)
    /\ UNCHANGED <<updates, search_data, random_id, met_object, image_url, caption, trace>>
    /\ UNCHANGED <<fmtvars, fetchvars>>

Log(u, e) == trace' = [trace EXCEPT ![u] = Append(@, e)]

(***************************************************************************)
(* get_met_art_item                                                        *)
(***************************************************************************)
\* lines 113-116: send_chat_action(action="upload_photo"); a failure of the
\* call leaves the handler as an exception
ArtChatAction(u) ==
    /\ pc[u] = "chat_action"
    /\ \E ok \in BOOLEAN :
         /\ Log(u, Event("send_chat_action", "upload_photo", <<>>, Null, "none", ok))
         /\ pc' = [pc EXCEPT ![u] = IF ok THEN "search" ELSE "raised"]
    /\ UNCHANGED <<updates, queue, search_data, random_id, met_object, image_url, caption>>
    /\ UNCHANGED <<fmtvars, fetchvars>>

\* what get_met_art_item does once get_random_met_object has returned mo,
\* up to its next await (lines 119-130)
Selected(u, mo) ==
    /\ met_object' = [met_object EXCEPT ![u] = mo]
    /\ pc' = [pc EXCEPT ![u] = AfterSelector(mo)]
    /\ image_url' = [image_url EXCEPT ![u] =
                        IF Formats(mo) THEN get_best_image_url(mo.v.d) ELSE @]
    /\ caption' = [caption EXCEPT ![u] =
                        IF Formats(mo) THEN format_art_info(mo.v.d) ELSE @]

\* lines 52-64: the search request and the test of its result
ArtSearch(u) ==
    /\ pc[u] = "search"
    /\ \E resp \in Responses(SearchJsons) :
         LET sd == fetch_json(resp) IN
         /\ search_data' = [search_data EXCEPT ![u] = sd]
         /\ Log(u, Event("GET", "search", <<>>, Null, "none", sd.r = "ok" /\ sd # PyNone))
         /\ CASE SearchOutcome(sd) = "raise" ->
                   /\ Selected(u, Raises)
                   /\ UNCHANGED random_id
              [] SearchOutcome(sd) = "none" ->
                   /\ Selected(u, PyNone)
                   /\ UNCHANGED random_id
              [] OTHER ->
                   /\ \E id \in Choices(sd) : random_id' = [random_id EXCEPT ![u] = id]
                   /\ pc' = [pc EXCEPT ![u] = "detail"]
                   /\ UNCHANGED <<met_object, image_url, caption>>
    /\ UNCHANGED <<updates, queue>>
    /\ UNCHANGED <<fmtvars, fetchvars>>

\* lines 66-72: the detail request, whose result is returned as it is
ArtDetail(u) ==
    /\ pc[u] = "detail"
    /\ \E resp \in Responses(DetailJsons) :
         LET od == fetch_json(resp) IN
         /\ Log(u, Event("GET", "objects", <<Val(random_id[u])>>, Null, "none",
                         od.r = "ok" /\ od # PyNone))
         /\ Selected(u, od)
    /\ UNCHANGED <<updates, queue, search_data, random_id>>
    /\ UNCHANGED <<fmtvars, fetchvars>>

\* line 122: reply_text of the failure text, then return
ArtFailReply(u) ==
    /\ pc[u] = "fail_reply"
    /\ \E ok \in BOOLEAN :
         /\ Log(u, Event("reply_text", "", FailText, Null, "none", ok))
         /\ pc' = [pc EXCEPT ![u] = IF ok THEN "done" ELSE "raised"]
    /\ UNCHANGED <<updates, queue, search_data, random_id, met_object, image_url, caption>>
    /\ UNCHANGED <<fmtvars, fetchvars>>

\* faulty variant: no except clause around reply_photo
ArtPhotoNoExcept(u) ==
    /\ pc[u] = "photo"
    /\ \E ok \in BOOLEAN :
         /\ trace' = [trace EXCEPT ![u] =
                Append(@, Event("reply_photo", "", caption[u], image_url[u], "HTML", ok))]
         /\ pc' = [pc EXCEPT ![u] = IF ok THEN "done" ELSE "raised"]
    /\ UNCHANGED <<updates, queue, search_data, random_id, met_object, image_url, caption>>
    /\ UNCHANGED <<fmt_pc, fmt_rec, fmt_image, fmt_caption, fetch_pc, fetch_resp, fetch_out>>

\* lines 131-138: reply_photo; any exception of it is caught and logged
ArtPhoto(u) ==
    /\ pc[u] = "photo"
    /\ \E ok \in BOOLEAN :
         /\ Log(u, Event("reply_photo", "", caption[u], image_url[u], "HTML", ok))
         /\ pc' = [pc EXCEPT ![u] = IF ok THEN "done" ELSE "fallback"]
    /\ UNCHANGED <<updates, queue, search_data, random_id, met_object, image_url, caption>>
    /\ UNCHANGED <<fmtvars, fetchvars>>

\* lines 139-142: reply_text inside the except clause
ArtFallback(u) ==
    /\ pc[u] = "fallback"
    /\ \E ok \in BOOLEAN :
         /\ Log(u, Event("reply_text", "", FallbackText(image_url[u], caption[u]),
                         Null, "HTML", ok))
         /\ pc' = [pc EXCEPT ![u] = IF ok THEN "done" ELSE "raised"]
    /\ UNCHANGED <<updates, queue, search_data, random_id, met_object, image_url, caption>>
    /\ UNCHANGED <<fmtvars, fetchvars>>

\* lines 143-147: reply_text when no image URL was selected
ArtNoImage(u) ==
    /\ pc[u] = "noimg_reply"
    /\ \E ok \in BOOLEAN :
         /\ Log(u, Event("reply_text", "", NoImageText(caption[u]), Null, "HTML", ok))
         /\ pc' = [pc EXCEPT ![u] = IF ok THEN "done" ELSE "raised"]
    /\ UNCHANGED <<updates, queue, search_data, random_id, met_object, image_url, caption>>
    /\ UNCHANGED <<fmtvars, fetchvars>>

(***************************************************************************)
(* echo                                                                    *)
(***************************************************************************)
EchoChatAction(u) ==
    /\ pc[u] = "echo_action"
    /\ \E ok \in BOOLEAN :
         /\ Log(u, Event("send_chat_action", "typing", <<>>, Null, "none", ok))
         /\ pc' = [pc EXCEPT ![u] = IF ok THEN "sleep" ELSE "raised"]
    /\ UNCHANGED <<updates, queue, search_data, random_id, met_object, image_url, caption>>
    /\ UNCHANGED <<fmtvars, fetchvars>>

\* asyncio.sleep(0.5) returns
EchoSleep(u) ==
    /\ pc[u] = "sleep"
    /\ Log(u, Event("sleep", "0.5", <<>>, Null, "none", TRUE))
    /\ pc' = [pc EXCEPT ![u] = "echo_reply"]
    /\ UNCHANGED <<updates, queue, search_data, random_id, met_object, image_url, caption>>
    /\ UNCHANGED <<fmtvars, fetchvars>>

EchoReply(u) ==
    /\ pc[u] = "echo_reply"
    /\ \E ok \in BOOLEAN :
         /\ Log(u, Event("reply_text", "", <<Val(updates[u].text)>>, Null, "none", ok))
         /\ pc' = [pc EXCEPT ![u] = IF ok THEN "done" ELSE "raised"]
    /\ UNCHANGED <<updates, queue, search_data, random_id, met_object, image_url, caption>>
    /\ UNCHANGED <<fmtvars, fetchvars>>

Next ==
    \/ Dispatch
    \/ \E u \in U : ArtChatAction(u)
    \/ \E u \in U : ArtSearch(u)
    \/ \E u \in U : ArtDetail(u)
    \/ \E u \in U : ArtFailReply(u)
    \/ \E u \in U : ArtPhoto(u)
    \/ \E u \in U : ArtFallback(u)
    \/ \E u \in U : ArtNoImage(u)
    \/ \E u \in U : EchoChatAction(u)
    \/ \E u \in U : EchoSleep(u)
    \/ \E u \in U : EchoReply(u)

Spec == Init /\ [][Next]_vars

(***************************************************************************)
(* The formatter applied to one object record                              *)
(***************************************************************************)
FmtInit ==
    /\ fmt_rec \in Payloads(AllKeys, MaxKeys)
    /\ fmt_pc = "record"
    /\ fmt_image = Null
    /\ fmt_caption = <<>>
    /\ HandlersIdle
    /\ FetchIdle

\* line 126
FmtSelectImage ==
    /\ fmt_pc = "record"
    /\ fmt_image' = get_best_image_url(fmt_rec)
    /\ fmt_pc' = "selected"
    /\ UNCHANGED <<fmt_rec, fmt_caption, hvars, fetchvars>>

\* line 127
FmtCaption ==
    /\ fmt_pc = "selected"
    /\ fmt_caption' = format_art_info(fmt_rec)
    /\ fmt_pc' = "formatted"
    /\ UNCHANGED <<fmt_rec, fmt_image, hvars, fetchvars>>

FmtNext == FmtSelectImage \/ FmtCaption

FmtSpec == FmtInit /\ [][FmtNext]_vars

(***************************************************************************)
(* fetch_json applied to one response                                      *)
(***************************************************************************)
FetchInit ==
    /\ fetch_resp \in Responses(SearchJsons \cup DetailJsons)
    /\ fetch_pc = "requested"
    /\ fetch_out = Unset
    /\ HandlersIdle
    /\ FmtIdle

FetchReturn ==
    /\ fetch_pc = "requested"
    /\ fetch_out' = fetch_json(fetch_resp)
    /\ fetch_pc' = "returned"
    /\ UNCHANGED <<fetch_resp, hvars, fmtvars>>

FetchNext == FetchReturn

FetchSpec == FetchInit /\ [][FetchNext]_vars

(***************************************************************************)
(* Properties                                                              *)
(***************************************************************************)
\* the calls through which update u's handler sent, or tried to send, a message
Replies(u) == SelectSeq(trace[u], LAMBDA e : e.ev \in {"reply_text", "reply_photo"})

Requests(u) == SelectSeq(trace[u], LAMBDA e : e.ev = "GET")

\* the search returned None, or a JSON object without identifiers
NoIdentifiers(sd) ==
    /\ sd.r = "ok"
    /\ sd.v.t \in {"null", "dict"}
    /\ ~Truthy(Get(sd.v.d, "objectIDs"))

\* C1: when the search fetch yields None or an object whose objectIDs is
\* missing, null or empty, get_random_met_object returns None and no request
\* to /objects/{id} is made; such a request is made only after a search that
\* returned a non-empty list of identifiers.
C1_NoDetailWithoutIdentifiers ==
    \A u \in U :
        /\ NoIdentifiers(search_data[u]) =>
              /\ met_object[u] = PyNone
              /\ \A i \in 1..Len(trace[u]) : trace[u][i].arg # "objects"
        /\ \A i \in 1..Len(trace[u]) :
              (trace[u][i].ev = "GET" /\ trace[u][i].arg = "objects") =>
                 /\ search_data[u].r = "ok"
                 /\ search_data[u].v.t = "dict"
                 /\ Get(search_data[u].v.d, "objectIDs").l # <<>>
                 /\ \E j \in 1..(i - 1) :
                       trace[u][j].ev = "GET" /\ trace[u][j].arg = "search"

C1_Witness ==
    \E u \in U :
        /\ search_data[u] = Returns(JDict(<<[k |-> "objectIDs", v |-> List(<<>>)]>>))
        /\ pc[u] = "done"
        /\ Len(Requests(u)) = 1

\* C2: when get_random_met_object yields None, the only message the handler
\* sends is the failure text, as plain text, after which the handler ends: no
\* photo and no caption are sent.
C2_NoneGivesFailureText ==
    \A u \in U :
        met_object[u] = PyNone =>
            \/ pc[u] = "fail_reply" /\ Replies(u) = <<>>
            \/ /\ pc[u] \in Terminal
               /\ Replies(u) = <<Event("reply_text", "", FailText, Null, "none", pc[u] = "done")>>

\* the detail fetch failed after a successful search, and the reply was sent
C2_Witness ==
    \E u \in U :
        /\ met_object[u] = PyNone
        /\ Len(Requests(u)) = 2
        /\ pc[u] = "done"
        /\ Len(Replies(u)) = 1

\* C3 (as claimed): fetch_json returns None for every response with a status
\* outside 200..299, for every network failure and for every timeout.
C3_FailureGivesNone ==
    fetch_pc = "returned" =>
        ((\/ fetch_resp.kind \in {"client_error", "timeout"}
          \/ fetch_resp.status \notin 200..299) => fetch_out = PyNone)

IsFallbackOf(e, u) ==
    /\ e.ev = "reply_text"
    /\ e.mode = "HTML"
    /\ \E i \in 1..Len(e.text) :
          /\ e.text[i] = Val(image_url[u].s)
          /\ SubSeq(e.text, Len(e.text) - Len(caption[u]) + 1, Len(e.text)) = caption[u]
          /\ i <= Len(e.text) - Len(caption[u])

\* C4: with an image URL selected, the handler first sends the photo with the
\* caption; the fallback text with the URL and the caption follows if and only
\* if the photo send failed, and nothing else is sent.
C4_FallbackIffPhotoFails ==
    \A u \in U :
        Truthy(image_url[u]) =>
            LET r == Replies(u)
                photo(ok) == Event("reply_photo", "", caption[u], image_url[u], "HTML", ok)
            IN  /\ pc[u] \in {"photo", "fallback"} \cup Terminal
                /\ pc[u] = "photo" => r = <<>>
                /\ pc[u] = "fallback" => r = <<photo(FALSE)>>
                /\ pc[u] \in Terminal =>
                     \/ r = <<photo(TRUE)>> /\ pc[u] = "done"
                     \/ /\ Len(r) = 2
                        /\ r[1] = photo(FALSE)
                        /\ IsFallbackOf(r[2], u)
                        /\ r[2].ok = (pc[u] = "done")

C4_Witness ==
    \E u \in U :
        /\ Truthy(image_url[u])
        /\ pc[u] = "done"
        /\ Len(Replies(u)) = 2
        /\ ~Replies(u)[1].ok

NoImageCase(u) ==
    /\ pc[u] \in Terminal
    /\ Formats(met_object[u])
    /\ ~Truthy(image_url[u])

\* C5 (as claimed): with a record fetched and no image URL selected, the text
\* sent is format_art_info(record) and nothing else, and no photo is sent.
C5_CaptionAlone ==
    \A u \in U :
        NoImageCase(u) =>
            /\ Len(Replies(u)) = 1
            /\ Replies(u)[1].ev = "reply_text"
            /\ Replies(u)[1].text = format_art_info(met_object[u].v.d)

\* C5 (amended): with a non-empty record fetched and no image URL selected,
\* the one message sent is a text in HTML mode made of the notice
\* "No image available for this artwork", an empty line and then
\* format_art_info(record); no photo is sent.
C5_NoticeThenCaption ==
    \A u \in U :
        NoImageCase(u) =>
            LET cap == format_art_info(met_object[u].v.d) IN
            /\ Len(Replies(u)) = 1
            /\ Replies(u)[1].ev = "reply_text"
            /\ Replies(u)[1].mode = "HTML"
            /\ Len(Replies(u)[1].text) = Len(cap) + 1
            /\ Replies(u)[1].text[1] = Lit(<<"U+274C No image available for this artwork\n\n">>)
            /\ SubSeq(Replies(u)[1].text, 2, Len(cap) + 1) = cap

C5_Witness ==
    \E u \in U :
        /\ NoImageCase(u)
        /\ pc[u] = "done"
        /\ caption[u] # <<>>

\* C6: get_best_image_url returns primaryImageSmall when it is present and
\* non-empty, else primaryImage when that is, else the first entry of
\* additionalImages, and None when all three are absent or empty.
C6_ImageFallbackOrder ==
    fmt_pc \in {"selected", "formatted"} =>
        LET small == Get(fmt_rec, "primaryImageSmall")
            prim == Get(fmt_rec, "primaryImage")
            more == Get(fmt_rec, "additionalImages")
        IN  /\ Truthy(small) => fmt_image = small
            /\ (~Truthy(small) /\ Truthy(prim)) => fmt_image = prim
            /\ (~Truthy(small) /\ ~Truthy(prim) /\ Truthy(more)) =>
                   fmt_image = Str(more.l[1])
            /\ (~Truthy(small) /\ ~Truthy(prim) /\ ~Truthy(more)) => fmt_image = Null

C6_Witness ==
    /\ fmt_pc = "selected"
    /\ Truthy(Get(fmt_rec, "primaryImageSmall"))
    /\ Truthy(Get(fmt_rec, "primaryImage"))
    /\ fmt_image = Get(fmt_rec, "primaryImageSmall")

\* the positions in Fields of the labels found in a text, in the text's order
LabelsOf(text) ==
    LET isLabel(pc0) == \E i \in 1..Len(Fields) : pc0 = LabelPiece(Fields[i].label)
        labels == SelectSeq(text, isLabel)
    IN  [n \in 1..Len(labels) |->
            CHOOSE i \in 1..Len(Fields) : labels[n] = LabelPiece(Fields[i].label)]

\* C7: the caption has exactly one line for each of Title, Artist, Date,
\* Culture, Period, Medium, Country that is present and non-empty in the
\* record and none for the others, in that order whatever the order of the
\* record's keys; the only other content is the final link line, present
\* exactly when the record has an object URL.
C7_OneLinePerFieldInOrder ==
    fmt_pc = "formatted" =>
        LET ls == LabelsOf(fmt_caption)
            nfields == Cardinality({i \in 1..Len(Fields) : Truthy(Get(fmt_rec, Fields[i].key))})
            link == IF Truthy(Get(fmt_rec, "objectURL")) THEN 1 ELSE 0
            nlines == nfields + link
            seps == {n \in 1..Len(fmt_caption) : fmt_caption[n] = Lit(<<"\n">>)}
        IN  /\ \A i \in 1..Len(Fields) :
                  Cardinality({n \in 1..Len(ls) : ls[n] = i}) =
                     (IF Truthy(Get(fmt_rec, Fields[i].key)) THEN 1 ELSE 0)
            /\ \A m, n \in 1..Len(ls) : m < n => ls[m] < ls[n]
            /\ \A n \in 1..Len(fmt_caption) :
                  fmt_caption[n] = LabelPiece(Fields[1].label) => n = 1
            /\ Cardinality(seps) = (IF nlines = 0 THEN 0 ELSE nlines - 1)
            /\ Len(fmt_caption) = 2 * nfields + 3 * link + Cardinality(seps)
            /\ link = 1 => SubSeq(fmt_caption, Len(fmt_caption) - 2, Len(fmt_caption))
                              = LinkLine(Get(fmt_rec, "objectURL"))

\* a record whose keys come in the reverse of the caption's order
C7_Witness ==
    /\ fmt_pc = "formatted"
    /\ Len(fmt_rec) = 3
    /\ fmt_rec[1].k = "objectURL" /\ Truthy(fmt_rec[1].v)
    /\ fmt_rec[2].k = "country" /\ Truthy(fmt_rec[2].v)
    /\ fmt_rec[3].k = "title" /\ Truthy(fmt_rec[3].v)
    /\ LabelsOf(fmt_caption) = <<1, 7>>

ControlChars == {"<", ">", "&", "\"", "'"}

\* C8 (as claimed): in every message sent in HTML mode, no interpolated value
\* contains an unescaped markup character.
C8_AllValuesEscaped ==
    \A u \in U : \A i \in 1..Len(trace[u]) :
        trace[u][i].mode = "HTML" =>
            \A n \in 1..Len(trace[u][i].text) :
                trace[u][i].text[n].k = "val" =>
                    \A c \in 1..Len(trace[u][i].text[n].s) :
                        trace[u][i].text[n].s[c] \notin ControlChars

Suspended == {"search", "detail", "fail_reply", "photo", "fallback", "noimg_reply",
              "sleep", "echo_reply"}

\* C9 (as claimed): while the handler of one update is suspended, the handler
\* of the next received update can start; and the echo reply is the update's
\* text, sent after the typing indicator and the delay.
C9_HandlersNotSerialized ==
    /\ ((\E u \in U : pc[u] \in Suspended) /\ queue # <<>>) => ENABLED Dispatch
    /\ \A u \in U :
          (updates[u].kind = "text" /\ Replies(u) # <<>>) =>
              /\ Len(trace[u]) = 3
              /\ trace[u][1].ev = "send_chat_action" /\ trace[u][1].arg = "typing"
              /\ trace[u][2].ev = "sleep"
              /\ trace[u][3].text = <<Val(updates[u].text)>>

\* C10 (as claimed): every run of the art handler whose presence indicator was
\* sent and whose fetches returned None or a JSON object ends without an
\* exception and with exactly one message delivered, whichever of its sends
\* fail, its calls being in the order indicator, search, detail, send.
C10_OneMessageNoException ==
    \A u \in U :
        (/\ updates[u].kind = "art"
         /\ pc[u] \in Terminal
         /\ trace[u][1].ok
         /\ met_object[u].r = "ok"
         /\ met_object[u].v.t \in {"null", "dict"}) =>
            /\ pc[u] = "done"
            /\ Cardinality({i \in 1..Len(trace[u]) :
                   trace[u][i].ev \in {"reply_text", "reply_photo"} /\ trace[u][i].ok}) = 1
            /\ trace[u][1].ev = "send_chat_action"
            /\ trace[u][2].ev = "GET" /\ trace[u][2].arg = "search"
            /\ \A i \in 3..Len(trace[u]) :
                  \/ i = 3 /\ trace[u][i].ev = "GET" /\ trace[u][i].arg = "objects"
                  \/ trace[u][i].ev \in {"reply_text", "reply_photo"}

====
